---- MODULE Spec2Model ----
(***************************************************************************)
(* The crawl-and-localize engine of the site extractor: one POST           *)
(* /api/extract job, its frontier (urlQueue), its two visited sets, the    *)
(* concurrently running downloadPage / downloadAsset tasks, the running    *)
(* size total, the working area (tempDir) and the archive step.            *)
(*                                                                         *)
(* Strings are sequences of tokens (a file name "s.css" is <<"s",".css">>),*)
(* so that concatenation, prefix tests and extension tests are computed.   *)
(* A path is a sequence of segments; the empty last segment is a trailing  *)
(* slash.  Sizes are counted in MiB.                                       *)
(*                                                                         *)
(* An action is one event-loop turn: an I/O completion or a timer, with    *)
(* every continuation it makes runnable, up to the next await of I/O.      *)
(***************************************************************************)
EXTENDS Integers, Sequences, FiniteSets, TLC

\* ------------------------------------------------------------ constants
MAX_CONCURRENT_DOWNLOADS == 10
CHUNK_SIZE == 15
MAX_SIZE_MB == 500
MAX_CONTENT_MB == 50
RETRIES == 3
BACKOFF_BASE_MS == 1000

\* --------------------------------------------------------------- bounds
\* size of a small response body, and the number of leaf pages of the wide site
SmallBody == 1
WideLeaves == 16

\* ------------------------------------------------------------- sequences
Last(s) == s[Len(s)]
Front(s) == SubSeq(s, 1, Len(s) - 1)
IsPrefix(s, t) == Len(s) <= Len(t) /\ SubSeq(t, 1, Len(s)) = s
Range(s) == {s[i] : i \in 1..Len(s)}
Min(a, b) == IF a <= b THEN a ELSE b

RECURSIVE Pow2(_)
Pow2(n) == IF n = 0 THEN 1 ELSE 2 * Pow2(n - 1)

\* ------------------------------------------------------------------ URLs
\* A URL string: origin tokens (scheme, host, then whatever the string goes
\* on with before the path), path segments, query and fragment ("" = none).
Url(org, path, query, frag) == [org |-> org, path |-> path, query |-> query, frag |-> frag]

BadOrg == <<"http://[">>
DataOrg == <<"data:">>

\* new URL(s) throws on a string that is no URL
Parsable(u) == u.org # BadOrg

\* new URL(s).href: the serialised URL; an empty path becomes "/"
Href(u) == IF u.path = <<>> /\ u.org # DataOrg THEN [u EXCEPT !.path = << <<>> >>] ELSE u

Origin(u) == u.org
Host(u) == Tail(u.org)
Pathname(u) == Href(u).path

\* absoluteLink.split('#')[0].split('?')[0]
NormalizeLink(u) == [u EXCEPT !.query = "", !.frag = ""]

\* normalizedLink.startsWith(baseUrl): a prefix test on the strings
StartsWithBase(u, baseUrl) == IsPrefix(baseUrl, u.org)

\* An attribute value as written in a document.  k is its form:
\*   "abs" an absolute http(s) URL, "rel" a root-relative reference,
\*   "protorel" //host/path, "mailto", "tel", "hash" (#fragment), "data",
\*   "empty", "bad" (no URL, not starting with http), "badabs" (starts with
\*   http, no URL), "local" a rewritten relative local path.
Val(k, org, path, query, frag) == [k |-> k, org |-> org, path |-> path, query |-> query, frag |-> frag]
Plain(k) == Val(k, <<>>, <<>>, "", "")
RelRef(path) == Val("rel", <<>>, path, "", "")
AbsRef(u) == Val("abs", u.org, u.path, u.query, u.frag)
LocalRef(path) == Val("local", <<>>, path, "", "")

\* new URL(href, base): [ok, url]
Resolve(v, base) ==
  CASE v.k = "abs" -> [ok |-> TRUE, url |-> Href(Url(v.org, v.path, v.query, v.frag))]
    [] v.k = "rel" -> [ok |-> TRUE, url |-> Href(Url(base.org, v.path, v.query, v.frag))]
    [] v.k = "protorel" -> [ok |-> TRUE, url |-> Href(Url(<<Head(base.org)>> \o v.org, v.path, v.query, v.frag))]
    [] v.k = "hash" -> [ok |-> TRUE, url |-> [Href(base) EXCEPT !.frag = v.frag]]
    [] v.k \in {"mailto", "tel", "data"} -> [ok |-> TRUE, url |-> Url(DataOrg, <<>>, "", "")]
    [] OTHER -> [ok |-> FALSE, url |-> Url(BadOrg, <<>>, "", "")]

\* --------------------------------------------------------- the path mapper
ExtToks == {".html", ".htm", ".HTML", ".css", ".js", ".png", ".bin"}
LowerTok(t) == IF t = ".HTML" THEN ".html" ELSE t
\* path.extname of a file name
ExtName(seg) == IF Len(seg) >= 2 /\ Last(seg) \in ExtToks THEN Last(seg) ELSE ""

\* decodeURIComponent on one token; "%zz" makes it throw
DecodeOk(t) == t # "%zz"
DecodeTok(t) == IF t = "%20" THEN " " ELSE t
DecodeSeg(seg) == [i \in 1..Len(seg) |-> DecodeTok(seg[i])]
\* encodeURI on one token
EncodeTok(t) == IF t = " " THEN "%20" ELSE IF t = "%20" THEN "%2520" ELSE t
EncodeURI(path) == [i \in 1..Len(path) |-> [j \in 1..Len(path[i]) |-> EncodeTok(path[i][j])]]

\* path.join under tempDir: empty segments vanish
DropEmpty(path) == SelectSeq(path, LAMBDA seg : seg # <<>>)

IndexHtml == <<"index", ".html">>
HtmlExts == {".html", ".htm"}

\* getLocalFilePath keeping the path of a URL with any extension
MutGetLocalFilePath(url) ==
  LET pn == Pathname(url)
      decodable == \A i \in 1..Len(pn) : \A j \in 1..Len(pn[i]) : DecodeOk(pn[i][j])
      decoded == DropEmpty([i \in 1..Len(pn) |-> DecodeSeg(pn[i])])
      extname == ExtName(Last(pn))
  IN  IF ~Parsable(url) \/ ~decodable THEN [ok |-> FALSE, path |-> <<>>]
      ELSE IF Last(pn) = <<>>
        THEN [ok |-> TRUE, path |-> DropEmpty(pn) \o <<IndexHtml>>]
        ELSE IF extname = ""
          THEN [ok |-> TRUE, path |-> Front(decoded) \o <<Last(decoded) \o <<".html">>>>]
          ELSE [ok |-> TRUE, path |-> decoded]

\* getLocalFilePath(url, baseUrl, tempDir): [ok, path], the path under tempDir
getLocalFilePath(url) ==
  LET pn == Pathname(url)
      decodable == \A i \in 1..Len(pn) : \A j \in 1..Len(pn[i]) : DecodeOk(pn[i][j])
      decoded == DropEmpty([i \in 1..Len(pn) |-> DecodeSeg(pn[i])])
      extname == ExtName(Last(pn))
  IN  IF ~Parsable(url) \/ ~decodable THEN [ok |-> FALSE, path |-> <<>>]
      ELSE IF Last(pn) = <<>>
        THEN [ok |-> TRUE, path |-> DropEmpty(pn) \o <<IndexHtml>>]
        ELSE IF extname = "" \/ LowerTok(extname) \notin HtmlExts
          THEN [ok |-> TRUE, path |-> Front(decoded) \o <<Last(decoded) \o <<".html">>>>]
          ELSE [ok |-> TRUE, path |-> decoded]

\* the asset's path under tempDir (the host of a cross-origin asset is one
\* path component)
AssetPath(assetUrl, baseHost) ==
  IF Host(assetUrl) = baseHost
    THEN DropEmpty(Pathname(assetUrl))
    ELSE <<<<"assets">>, Host(assetUrl)>> \o DropEmpty(Pathname(assetUrl))

Dirname(path) == Front(path)

RECURSIVE CommonLen(_, _)
CommonLen(a, b) ==
  IF a # <<>> /\ b # <<>> /\ Head(a) = Head(b) THEN 1 + CommonLen(Tail(a), Tail(b)) ELSE 0

\* path.relative(from, to)
Relative(from, to) ==
  LET c == CommonLen(from, to)
  IN  [i \in 1..(Len(from) - c) |-> <<"..">>] \o SubSeq(to, c + 1, Len(to))


\* ------------------------------------------------------- the sites crawled
\* The published site is the job's input: site names it, targetUrl is the
\* submitted request body.
VARIABLES site, targetUrl

SiteOrg == <<"https://", "s.", "webflow.io">>
OtherOrg == <<"https://", "evil.example.com">>
\* a host whose name goes on after the site's: https://s.webflow.io.evil.com
LookalikeOrg == SiteOrg \o <<".evil.com">>
CdnHost == <<"cdn.example.com">>
CdnOrg == <<"https://">> \o CdnHost

RootP == << <<>> >>
AP == << <<"a">> >>
BP == << <<"b">> >>
CP == << <<"c">> >>
ZP == << <<"%zz">> >>
AHtmlP == << <<"a", ".html">> >>
DeepP == << <<"d", "%20", "x">>, <<"p">> >>
DirP == << <<"dir">>, <<>> >>
EncDirP == << <<"d", "%20", "y">>, <<>> >>
PlainP == << <<"p">> >>
QHtmlP == << <<"q", ".html">> >>
RHtmlP == << <<"r", ".HTML">> >>
XCssP == << <<"docs">>, <<"x", ".css">> >>
CssP == << <<"css">>, <<"s", ".css">> >>
LibP == << <<"lib", ".js">> >>
ImgP == << <<"img">>, <<"p", ".png">> >>
ChainP(i) == << <<"c", ToString(i)>> >>
BinP(i, x) == << <<"bin">>, <<"c", ToString(i), x, ".bin">> >>
FinalP(i) == << <<"f", ToString(i)>> >>
LeafP(i) == << <<"l", ToString(i)>> >>

El(tag, attr, val) == [tag |-> tag, attr |-> attr, val |-> val]
Anchor(val) == El("a", "href", val)
Body(status, size, els) == [status |-> status, size |-> size, els |-> els]
NotFound == Body("dead", 0, <<>>)

\* status: "ok" the server always answers, "dead" it never does, "flaky"
\* each request may fail.
MeshPage(p) ==
  CASE p = RootP -> Body("flaky", SmallBody,
         << El("link", "href", RelRef(CssP)),
            El("script", "src", Val("protorel", CdnHost, LibP, "", "")),
            El("img", "src", Plain("data")),
            Anchor(RelRef(RootP)),
            Anchor(Val("rel", <<>>, AP, "x", "top")),
            Anchor(RelRef(BP)),
            Anchor(RelRef(ZP)),
            Anchor(Plain("mailto")),
            Anchor(Plain("hash")),
            Anchor(Plain("bad")),
            Anchor(AbsRef(Url(CdnOrg, RootP, "", ""))) >>)
    [] p = AP -> Body("flaky", SmallBody,
         << El("link", "href", AbsRef(Url(SiteOrg, CssP, "", ""))),
            El("img", "src", RelRef(ImgP)),
            Anchor(RelRef(BP)),
            Anchor(RelRef(CP)),
            Anchor(RelRef(RootP)) >>)
    [] p = BP -> Body("flaky", SmallBody,
         << El("img", "src", RelRef(ImgP)),
            El("img", "src", RelRef(ImgP)),
            El("script", "src", Plain("badabs")),
            Anchor(RelRef(AP)) >>)
    [] p = CP -> Body("flaky", SmallBody, <<Anchor(RelRef(AP))>>)
    [] p = ZP -> Body("ok", SmallBody, <<>>)
    [] OTHER -> NotFound

\* A chain of three maximal pages, each with two maximal assets, ending in
\* three maximal pages fetched in one wave.
BigPage(p) ==
  IF \E i \in 0..2 : p = ChainP(i)
    THEN LET i == CHOOSE j \in 0..2 : p = ChainP(j)
         IN  Body("ok", MAX_CONTENT_MB,
               << El("img", "src", RelRef(BinP(i, "a"))),
                  El("source", "src", RelRef(BinP(i, "b"))) >>
               \o (IF i < 2 THEN <<Anchor(RelRef(ChainP(i + 1)))>>
                   ELSE [j \in 1..3 |-> Anchor(RelRef(FinalP(j)))]))
    ELSE IF \E i \in 1..3 : p = FinalP(i)
      THEN Body("flaky", MAX_CONTENT_MB, <<>>)
      ELSE NotFound

\* One page linking to WideLeaves leaf pages; the last leaf has a stylesheet.
WidePage(p) ==
  IF p = RootP
    THEN Body("ok", SmallBody, [j \in 1..WideLeaves |-> Anchor(RelRef(LeafP(j)))])
    ELSE IF \E i \in 1..(WideLeaves - 1) : p = LeafP(i)
      THEN Body("ok", SmallBody, <<>>)
      ELSE IF p = LeafP(WideLeaves)
        THEN Body("flaky", SmallBody, <<El("link", "href", RelRef(CssP))>>)
        ELSE NotFound

\* A page in a directory whose name has a space, two pages /a and /a.html,
\* a link to the look-alike host and a link to another site.
NestPage(p) ==
  CASE p = RootP -> Body("ok", SmallBody,
         << El("link", "href", RelRef(CssP)),
            Anchor(RelRef(DeepP)),
            Anchor(RelRef(AP)),
            Anchor(RelRef(AHtmlP)),
            Anchor(AbsRef(Url(LookalikeOrg, RootP, "", ""))),
            Anchor(AbsRef(Url(CdnOrg, AP, "", ""))) >>)
    [] p = DeepP -> Body("ok", SmallBody, <<Anchor(RelRef(AP)), Anchor(RelRef(RootP))>>)
    [] p = AP -> Body("ok", SmallBody, <<Anchor(RelRef(DeepP))>>)
    [] p = AHtmlP -> Body("ok", SmallBody, <<>>)
    [] OTHER -> NotFound

\* One page linking to pages of every shape of path: directories, no
\* extension, .html, .HTML, another extension, an undecodable escape.
PathsPage(p) ==
  IF p = RootP
    THEN Body("ok", SmallBody,
           << El("link", "href", RelRef(CssP)),
              Anchor(RelRef(DirP)), Anchor(RelRef(EncDirP)), Anchor(RelRef(PlainP)),
              Anchor(RelRef(QHtmlP)), Anchor(RelRef(RHtmlP)), Anchor(RelRef(XCssP)),
              Anchor(RelRef(DeepP)), Anchor(RelRef(ZP)) >>)
    ELSE IF p = PlainP THEN Body("flaky", SmallBody, <<>>)
    ELSE IF p \in {DirP, EncDirP, QHtmlP, RHtmlP, XCssP, DeepP, ZP}
      THEN Body("ok", SmallBody, <<>>)
      ELSE NotFound

Sites == {"mesh", "big", "nest", "paths", "wide"}

\* the response to a page request
Content(u) ==
  IF u.org # SiteOrg THEN NotFound
  ELSE CASE site = "mesh" -> MeshPage(Pathname(u))
         [] site = "big" -> BigPage(Pathname(u))
         [] site = "nest" -> NestPage(Pathname(u))
         [] site = "paths" -> PathsPage(Pathname(u))
         [] OTHER -> WidePage(Pathname(u))

\* the response to an asset request: [status, size]
AssetBody(u) ==
  CASE site = "big" -> [status |-> "ok", size |-> MAX_CONTENT_MB]
    [] Pathname(u) = LibP -> [status |-> "ok", size |-> SmallBody]
    [] OTHER -> [status |-> "flaky", size |-> SmallBody]

\* the request bodies submitted
Targets(s) ==
  CASE s = "mesh" -> { Url(SiteOrg, RootP, "ref", ""), Url(SiteOrg, <<>>, "", ""),
                       Url(SiteOrg, RootP, "", ""), Url(OtherOrg, RootP, "", ""),
                       Url(LookalikeOrg, RootP, "", ""), Url(BadOrg, <<>>, "", "") }
    [] s = "big" -> { Url(SiteOrg, ChainP(0), "", "") }
    [] OTHER -> { Url(SiteOrg, RootP, "", "") }

AllowedSuffixes == {"webflow.io", "webflow.com"}

\* isValidWebflowUrl(url)
isValidWebflowUrl(u) ==
  Parsable(u) /\ Host(u) # <<>> /\ Last(Host(u)) \in AllowedSuffixes


\* ------------------------------------------------------------ the job state
\* jobPc: "idle" no request yet, "rejected", "crawling" (awaiting the wave's
\* Promise.all), "archiving" (awaiting archive.finalize), "completed",
\* "failed".  tempDir: the working area exists; files: path -> what was
\* written there.  pending: the pages of the current wave whose promise has
\* not settled.  pages: url -> the downloadPage task.  log: what was done
\* (fetches and assetCalls count requests, enq is every push to urlQueue in
\* order, waves is every chunk claimed, archived the files the archive took,
\* written every writeFileSync: its path and the URL it stored).  steps: the
\* event-loop turns taken for the request.
VARIABLES jobPc, tempDir, files, visitedUrls, visitedAssets, urlQueue,
          totalSize, pending, pages, log, steps

vars == <<site, targetUrl, jobPc, tempDir, files, visitedUrls, visitedAssets,
          urlQueue, totalSize, pending, pages, log, steps>>

Empty == [x \in {} |-> 0]
Count(bag, x) == IF x \in DOMAIN bag THEN bag[x] ELSE 0
Bump(bag, x) == (x :> Count(bag, x) + 1) @@ bag

baseUrl == Origin(targetUrl)
baseHost == Host(targetUrl)

\* The mutable state a continuation runs on, and its write-back.
Cur ==
  [jobPc |-> jobPc, tempDir |-> tempDir, files |-> files, visitedUrls |-> visitedUrls,
   visitedAssets |-> visitedAssets, urlQueue |-> urlQueue, totalSize |-> totalSize,
   pending |-> pending, pages |-> pages, log |-> log]

Commit(S) ==
  /\ jobPc' = S.jobPc
  /\ tempDir' = S.tempDir
  /\ files' = S.files
  /\ visitedUrls' = S.visitedUrls
  /\ visitedAssets' = S.visitedAssets
  /\ urlQueue' = S.urlQueue
  /\ totalSize' = S.totalSize
  /\ pending' = S.pending
  /\ pages' = S.pages
  /\ log' = S.log
  /\ steps' = steps + 1
  /\ UNCHANGED <<site, targetUrl>>

\* a downloadPage task at its axios.get
PageTask ==
  [pc |-> "fetching", why |-> "", pageSize |-> 0, attrs |-> <<>>,
   items |-> <<>>, at |-> 0, tasks |-> <<>>]

\* one asset of a page: pc "none" (its chunk not reached), "fetching" (attempt
\* i at its axios.get), "backoff" (in the timer after attempt i), "ok",
\* "failed" (returned 0 from the catch), "skipped" (already in visitedAssets)
AssetTask == [pc |-> "none", i |-> 0, size |-> 0, waits |-> <<>>]
Settled(t) == t.pc \in {"ok", "failed", "skipped"}

\* ------------------------------------------------------------ file system
\* mkdirSync(dir, {recursive}) then writeFileSync(path): fails when a parent
\* of path is a file or path is a directory
CanWrite(fs, path) ==
  \A f \in DOMAIN fs :
     /\ ~(Len(f) < Len(path) /\ IsPrefix(f, path))
     /\ ~(Len(path) < Len(f) /\ IsPrefix(path, f))

WriteFile(S, path, what) ==
  [S EXCEPT !.tempDir = TRUE, !.files = (path :> what) @@ @,
            !.log.written = @ \cup {[path |-> path, kind |-> what.kind, url |-> what.url]}]

\* finally: if (tempDir && fs.existsSync(tempDir)) fs.rmSync(tempDir, ...)
Cleanup(S) == [S EXCEPT !.tempDir = FALSE, !.files = Empty]

\* ------------------------------------------------------------ crawl loop
\* one element of chunk.map: claim the URL and run downloadPage to its axios.get
ClaimPage(S, u) ==
  IF u \in S.visitedUrls THEN S
  ELSE [S EXCEPT !.visitedUrls = @ \cup {u},
                 !.pages = (u :> PageTask) @@ @,
                 !.pending = @ \cup {u},
                 !.log.fetches = Bump(@, u)]

RECURSIVE ClaimChunk(_, _)
ClaimChunk(S, chunk) ==
  IF chunk = <<>> THEN S ELSE ClaimChunk(ClaimPage(S, Head(chunk)), Tail(chunk))

\* Splice taking the chunk from the tail of the queue
MutSplice(q) ==
  LET n == Min(CHUNK_SIZE, Len(q))
  IN  [chunk |-> SubSeq(q, Len(q) - n + 1, Len(q)), rest |-> SubSeq(q, 1, Len(q) - n)]

\* urlQueue.splice(0, CHUNK_SIZE): [chunk, rest]
Splice(q) ==
  LET n == Min(CHUNK_SIZE, Len(q))
  IN  [chunk |-> SubSeq(q, 1, n), rest |-> SubSeq(q, n + 1, Len(q))]

\* while (urlQueue.length > 0) { chunk; await Promise.all(...) }, run until
\* it awaits a wave with a page in flight, or leaves the loop for the archive
RECURSIVE CrawlLoop(_)
CrawlLoop(S) ==
  IF S.urlQueue = <<>> THEN [S EXCEPT !.jobPc = "archiving"]
  ELSE LET sp == Splice(S.urlQueue)
           S1 == ClaimChunk([S EXCEPT !.urlQueue = sp.rest,
                                      !.log.waves = Append(@, sp.chunk)], sp.chunk)
       IN  IF S1.pending = {} THEN CrawlLoop(S1) ELSE S1

\* catch + finally of the handler
JobFail(S) == [Cleanup(S) EXCEPT !.jobPc = "failed"]

\* PageReturn claiming the next wave as soon as a page returns, without the
\* wave's Promise.all
MutPageReturnNoBarrier(S, p, pageSize) ==
  LET S1 == [S EXCEPT !.totalSize = @ + pageSize, !.pending = @ \ {p}]
  IN  IF S1.totalSize > MAX_SIZE_MB
        THEN IF S1.jobPc = "crawling" THEN JobFail(S1) ELSE S1
        ELSE IF S1.jobPc = "crawling" /\ (S1.pending = {} \/ S1.urlQueue # <<>>)
          THEN CrawlLoop(S1) ELSE S1

\* PageReturn leaving the loop for the archive as soon as the frontier is
\* empty, without the wave's Promise.all
MutPageReturnEarlyArchive(S, p, pageSize) ==
  LET S1 == [S EXCEPT !.totalSize = @ + pageSize, !.pending = @ \ {p}]
  IN  IF S1.totalSize > MAX_SIZE_MB
        THEN IF S1.jobPc = "crawling" THEN JobFail(S1) ELSE S1
        ELSE IF S1.jobPc = "crawling" /\ (S1.pending = {} \/ S1.urlQueue = <<>>)
          THEN CrawlLoop(S1) ELSE S1

\* PageReturn with the ceiling compared by >=
MutPageReturn(S, p, pageSize) ==
  LET S1 == [S EXCEPT !.totalSize = @ + pageSize, !.pending = @ \ {p}]
  IN  IF S1.totalSize >= MAX_SIZE_MB
        THEN IF S1.jobPc = "crawling" THEN JobFail(S1) ELSE S1
        ELSE IF S1.jobPc = "crawling" /\ S1.pending = {} THEN CrawlLoop(S1) ELSE S1

\* the rest of chunk.map's function after await downloadPage: the size check,
\* and whatever the settled promise lets run
PageReturn(S, p, pageSize) ==
  LET S1 == [S EXCEPT !.totalSize = @ + pageSize, !.pending = @ \ {p}]
  IN  IF S1.totalSize > MAX_SIZE_MB
        THEN IF S1.jobPc = "crawling" THEN JobFail(S1) ELSE S1
        ELSE IF S1.jobPc = "crawling" /\ S1.pending = {} THEN CrawlLoop(S1) ELSE S1

\* PageFailed with the error leaving downloadPage
MutPageFailed(S, p, why) ==
  LET S1 == [S EXCEPT !.pages[p].pc = "failed", !.pages[p].why = why, !.pending = @ \ {p}]
  IN  IF S1.jobPc = "crawling" THEN JobFail(S1) ELSE S1

\* downloadPage's catch: return 0
PageFailed(S, p, why) ==
  PageReturn([S EXCEPT !.pages[p].pc = "failed", !.pages[p].why = why], p, 0)


\* ------------------------------------------------------------ downloadPage
IsAssetEl(e) ==
  \/ e.tag = "link" /\ e.attr = "href"
  \/ e.tag \in {"script", "img", "source"} /\ e.attr = "src"

\* the body of the .each over link[href], script[src], img[src], source[src]:
\* [keep, url], the asset URL string pushed to assets
AssetUrlOf(v, pageUrl) ==
  LET raw == Url(v.org, v.path, v.query, v.frag)
      r == Resolve(v, pageUrl)
      got == CASE v.k = "empty" -> [keep |-> FALSE, url |-> raw]
               [] v.k = "abs" -> [keep |-> TRUE, url |-> raw]
               [] v.k = "badabs" -> [keep |-> TRUE, url |-> Url(BadOrg, <<>>, "", "")]
               [] v.k = "protorel" -> [keep |-> TRUE, url |-> Url(<<"https://">> \o v.org, v.path, v.query, v.frag)]
               [] OTHER -> [keep |-> r.ok, url |-> r.url]
  IN  IF got.keep /\ got.url.org = DataOrg THEN [keep |-> FALSE, url |-> got.url] ELSE got

RECURSIVE DiscoverAssets(_, _, _)
DiscoverAssets(els, j, pageUrl) ==
  IF j > Len(els) THEN <<>>
  ELSE LET a == AssetUrlOf(els[j].val, pageUrl)
       IN  (IF IsAssetEl(els[j]) /\ a.keep THEN <<[url |-> a.url, el |-> j]>> ELSE <<>>)
           \o DiscoverAssets(els, j + 1, pageUrl)

ChunkEnd(pg) == Min(pg.at + MAX_CONCURRENT_DOWNLOADS, Len(pg.items))
ChunkSettled(pg) == \A k \in (pg.at + 1)..ChunkEnd(pg) : Settled(pg.tasks[k])

\* ClaimAsset with the insertion into visitedAssets left for after the download
MutClaimAsset(S, p, k) ==
  LET u == S.pages[p].items[k].url
  IN  IF u \in S.visitedAssets
        THEN [S EXCEPT !.pages[p].tasks[k].pc = "skipped"]
        ELSE IF ~Parsable(u)
          THEN [S EXCEPT !.pages[p].tasks[k].pc = "failed"]
          ELSE [S EXCEPT !.pages[p].tasks[k].pc = "fetching",
                         !.log.assetCalls = Bump(@, u),
                         !.log.assetGets = Bump(@, u)]

\* one element of the asset chunk.map, run to its first await: the claim in
\* visitedAssets, new URL(assetUrl), and downloadAsset to its axios.get
ClaimAsset(S, p, k) ==
  LET u == S.pages[p].items[k].url
  IN  IF u \in S.visitedAssets
        THEN [S EXCEPT !.pages[p].tasks[k].pc = "skipped"]
        ELSE IF ~Parsable(u)
          THEN [S EXCEPT !.visitedAssets = @ \cup {u}, !.pages[p].tasks[k].pc = "failed"]
          ELSE [S EXCEPT !.visitedAssets = @ \cup {u},
                         !.pages[p].tasks[k].pc = "fetching",
                         !.log.assetCalls = Bump(@, u),
                         !.log.assetGets = Bump(@, u)]

RECURSIVE ClaimAssets(_, _, _, _)
ClaimAssets(S, p, k, hi) ==
  IF k > hi THEN S ELSE ClaimAssets(ClaimAsset(S, p, k), p, k + 1, hi)

RECURSIVE SumSizes(_, _, _)
SumSizes(tasks, k, hi) == IF k > hi THEN 0 ELSE tasks[k].size + SumSizes(tasks, k + 1, hi)

\* the href an element is rewritten to
RewrittenRef(pageDir, localPath) == LocalRef(EncodeURI(Relative(pageDir, localPath)))

PageDir(p) == Dirname(getLocalFilePath(p).path)

\* LinkStep without the visitedUrls test before the push
MutLinkStep(S, p, j) ==
  LET e == Content(p).els[j]
      r == Resolve(e.val, p)
      n == NormalizeLink(r.url)
      S1 == IF n \notin Range(S.urlQueue)
              THEN [S EXCEPT !.urlQueue = Append(@, n), !.log.enq = Append(@, n)]
              ELSE S
      lp == getLocalFilePath(n)
  IN  IF e.tag # "a" \/ e.val.k \in {"empty", "mailto", "tel", "hash"} \/ ~r.ok THEN S
      ELSE IF ~StartsWithBase(n, baseUrl) THEN S
      ELSE IF ~lp.ok THEN S1
      ELSE [S1 EXCEPT !.pages[p].attrs[j] = RewrittenRef(PageDir(p), lp.path)]

\* LinkStep rewriting the href whatever the link's origin
MutLinkStepAnyOrigin(S, p, j) ==
  LET e == Content(p).els[j]
      r == Resolve(e.val, p)
      n == NormalizeLink(r.url)
      S1 == IF n \notin S.visitedUrls /\ n \notin Range(S.urlQueue)
              THEN [S EXCEPT !.urlQueue = Append(@, n), !.log.enq = Append(@, n)]
              ELSE S
      S2 == IF StartsWithBase(n, baseUrl) THEN S1 ELSE S
      lp == getLocalFilePath(n)
  IN  IF e.tag # "a" \/ e.val.k \in {"empty", "mailto", "tel", "hash"} \/ ~r.ok THEN S
      ELSE IF ~lp.ok THEN S2
      ELSE [S2 EXCEPT !.pages[p].attrs[j] = RewrittenRef(PageDir(p), lp.path)]

\* LinkStep with the link's path taken relative to the working area
MutLinkStepFromRoot(S, p, j) ==
  LET e == Content(p).els[j]
      r == Resolve(e.val, p)
      n == NormalizeLink(r.url)
      S1 == IF n \notin S.visitedUrls /\ n \notin Range(S.urlQueue)
              THEN [S EXCEPT !.urlQueue = Append(@, n), !.log.enq = Append(@, n)]
              ELSE S
      lp == getLocalFilePath(n)
  IN  IF e.tag # "a" \/ e.val.k \in {"empty", "mailto", "tel", "hash"} \/ ~r.ok THEN S
      ELSE IF ~StartsWithBase(n, baseUrl) THEN S
      ELSE IF ~lp.ok THEN S1
      ELSE [S1 EXCEPT !.pages[p].attrs[j] = RewrittenRef(<<>>, lp.path)]

\* the body of the .each over a[href] for element j
LinkStep(S, p, j) ==
  LET e == Content(p).els[j]
      r == Resolve(e.val, p)
      n == NormalizeLink(r.url)
      S1 == IF n \notin S.visitedUrls /\ n \notin Range(S.urlQueue)
              THEN [S EXCEPT !.urlQueue = Append(@, n), !.log.enq = Append(@, n)]
              ELSE S
      lp == getLocalFilePath(n)
  IN  IF e.tag # "a" \/ e.val.k \in {"empty", "mailto", "tel", "hash"} \/ ~r.ok THEN S
      ELSE IF ~StartsWithBase(n, baseUrl) THEN S
      ELSE IF ~lp.ok THEN S1
      ELSE [S1 EXCEPT !.pages[p].attrs[j] = RewrittenRef(PageDir(p), lp.path)]

RECURSIVE Links(_, _, _)
Links(S, p, j) ==
  IF j > Len(Content(p).els) THEN S ELSE Links(LinkStep(S, p, j), p, j + 1)

\* after the asset loop: the links, the page's file, return pageSize
FinishPage(S, p) ==
  LET S1 == Links(S, p, 1)
      path == getLocalFilePath(p).path
      pg == S1.pages[p]
      S2 == WriteFile([S1 EXCEPT !.pages[p].pc = "done"], path,
                      [kind |-> "page", url |-> p, attrs |-> pg.attrs])
  IN  IF CanWrite(S1.files, path) THEN PageReturn(S2, p, pg.pageSize)
      ELSE PageFailed(S1, p, "write")

\* the asset loop, from the chunk starting at pages[p].at: claim the chunk and
\* await it; once it has settled add its sizes and go on
RECURSIVE AssetLoop(_, _)
AssetLoop(S, p) ==
  LET pg == S.pages[p]
      S1 == ClaimAssets(S, p, pg.at + 1, ChunkEnd(pg))
      pg1 == S1.pages[p]
      S2 == [S1 EXCEPT !.pages[p].pageSize = @ + SumSizes(pg1.tasks, pg1.at + 1, ChunkEnd(pg1)),
                       !.pages[p].at = @ + MAX_CONCURRENT_DOWNLOADS]
  IN  IF pg.at >= Len(pg.items) THEN FinishPage(S, p)
      ELSE IF ~ChunkSettled(pg1) THEN S1
      ELSE AssetLoop(S2, p)

\* an asset of the awaited chunk has settled: the chunk's Promise.all may
\* resolve and the page go on
AssetSettled(S, p) ==
  LET pg == S.pages[p]
      S2 == [S EXCEPT !.pages[p].pageSize = @ + SumSizes(pg.tasks, pg.at + 1, ChunkEnd(pg)),
                      !.pages[p].at = @ + MAX_CONCURRENT_DOWNLOADS]
  IN  IF ChunkSettled(pg) THEN AssetLoop(S2, p) ELSE S

\* downloadPage after its axios.get resolved
PageFetched(S, p) ==
  LET c == Content(p)
      items == DiscoverAssets(c.els, 1, p)
      pg == [S.pages[p] EXCEPT !.pc = "assets", !.pageSize = c.size,
                               !.attrs = [j \in 1..Len(c.els) |-> c.els[j].val],
                               !.items = items,
                               !.tasks = [k \in 1..Len(items) |-> AssetTask]]
  IN  IF ~getLocalFilePath(p).ok THEN PageFailed(S, p, "path")
      ELSE AssetLoop([S EXCEPT !.pages[p] = pg], p)

\* ----------------------------------------------------------- downloadAsset
\* AttemptFailed sleeping the base delay every time
MutAttemptFailedFlat(S, p, k) ==
  LET t == S.pages[p].tasks[k]
  IN  IF t.i = RETRIES - 1
        THEN AssetSettled([S EXCEPT !.pages[p].tasks[k].pc = "failed"], p)
        ELSE [S EXCEPT !.pages[p].tasks[k].pc = "backoff",
                       !.pages[p].tasks[k].waits = Append(@, BACKOFF_BASE_MS)]

\* AttemptFailed with the last failure not caught by the asset's own try
MutAttemptFailedThrows(S, p, k) ==
  LET t == S.pages[p].tasks[k]
  IN  IF t.i = RETRIES - 1
        THEN PageFailed([S EXCEPT !.pages[p].tasks[k].pc = "failed"], p, "asset")
        ELSE [S EXCEPT !.pages[p].tasks[k].pc = "backoff",
                       !.pages[p].tasks[k].waits = Append(@, BACKOFF_BASE_MS * Pow2(t.i))]

\* AttemptFailed awaiting a promise that no timer resolves
MutAttemptFailedHangs(S, p, k) ==
  LET t == S.pages[p].tasks[k]
  IN  IF t.i = RETRIES - 1
        THEN AssetSettled([S EXCEPT !.pages[p].tasks[k].pc = "failed"], p)
        ELSE [S EXCEPT !.pages[p].tasks[k].pc = "asleep",
                       !.pages[p].tasks[k].waits = Append(@, BACKOFF_BASE_MS * Pow2(t.i))]

\* the catch of attempt i: throw on the last attempt, else sleep 1000 * 2^i
AttemptFailed(S, p, k) ==
  LET t == S.pages[p].tasks[k]
  IN  IF t.i = RETRIES - 1
        THEN AssetSettled([S EXCEPT !.pages[p].tasks[k].pc = "failed"], p)
        ELSE [S EXCEPT !.pages[p].tasks[k].pc = "backoff",
                       !.pages[p].tasks[k].waits = Append(@, BACKOFF_BASE_MS * Pow2(t.i))]

\* the response arrived: the size check, the write, return assetSize; then the
\* caller rewrites the element
AttemptDone(S, p, k) ==
  LET item == S.pages[p].items[k]
      body == AssetBody(item.url)
      path == AssetPath(item.url, baseHost)
      S1 == WriteFile(S, path, [kind |-> "asset", url |-> item.url, attrs |-> <<>>])
      S2 == [S1 EXCEPT !.pages[p].tasks[k].pc = "ok",
                       !.pages[p].tasks[k].size = body.size,
                       !.pages[p].attrs[item.el] = RewrittenRef(PageDir(p), path)]
  IN  IF body.size > MAX_SIZE_MB \/ ~CanWrite(S.files, path) THEN AttemptFailed(S, p, k)
      ELSE AssetSettled(S2, p)

\* the timer fired: the next attempt's axios.get
NextAttempt(S, p, k) ==
  [S EXCEPT !.pages[p].tasks[k].pc = "fetching",
            !.pages[p].tasks[k].i = @ + 1,
            !.log.assetGets = Bump(@, S.pages[p].items[k].url)]

\* ----------------------------------------------------------------- actions
InitOn(sites) ==
  /\ site \in sites
  /\ targetUrl \in Targets(site)
  /\ jobPc = "idle"
  /\ tempDir = FALSE
  /\ files = Empty
  /\ visitedUrls = {}
  /\ visitedAssets = {}
  /\ urlQueue = <<>>
  /\ totalSize = 0
  /\ pending = {}
  /\ pages = Empty
  /\ log = [fetches |-> Empty, assetCalls |-> Empty, assetGets |-> Empty,
            enq |-> <<>>, waves |-> <<>>, archived |-> {}, written |-> {}]
  /\ steps = 0

\* Submit with the working area made before the URL is validated
MutSubmit ==
  /\ jobPc = "idle"
  /\ IF ~isValidWebflowUrl(targetUrl)
       THEN Commit([Cur EXCEPT !.jobPc = "rejected", !.tempDir = TRUE])
       ELSE Commit(CrawlLoop([Cur EXCEPT !.jobPc = "crawling", !.tempDir = TRUE,
                                         !.urlQueue = <<targetUrl>>,
                                         !.log.enq = <<targetUrl>>]))

\* POST /api/extract, to its first await
Submit ==
  /\ jobPc = "idle"
  /\ IF ~isValidWebflowUrl(targetUrl)
       THEN Commit([Cur EXCEPT !.jobPc = "rejected"])
       ELSE Commit(CrawlLoop([Cur EXCEPT !.jobPc = "crawling", !.tempDir = TRUE,
                                         !.urlQueue = <<targetUrl>>,
                                         !.log.enq = <<targetUrl>>]))

PageFetchOk(p) ==
  /\ pages[p].pc = "fetching"
  /\ Content(p).status # "dead"
  /\ Commit(PageFetched(Cur, p))

PageFetchFail(p) ==
  /\ pages[p].pc = "fetching"
  /\ Content(p).status # "ok"
  /\ Commit(PageFailed(Cur, p, "fetch"))

AssetFetchOk(p, k) ==
  /\ pages[p].pc = "assets"
  /\ pages[p].tasks[k].pc = "fetching"
  /\ AssetBody(pages[p].items[k].url).status # "dead"
  /\ Commit(AttemptDone(Cur, p, k))

AssetFetchFail(p, k) ==
  /\ pages[p].pc = "assets"
  /\ pages[p].tasks[k].pc = "fetching"
  /\ AssetBody(pages[p].items[k].url).status # "ok"
  /\ Commit(AttemptFailed(Cur, p, k))

BackoffElapsed(p, k) ==
  /\ pages[p].pc = "assets"
  /\ pages[p].tasks[k].pc = "backoff"
  /\ Commit(NextAttempt(Cur, p, k))

\* archive.finalize() resolved; finally
ArchiveDone ==
  /\ jobPc = "archiving"
  /\ Commit(Cleanup([Cur EXCEPT !.jobPc = "completed", !.log.archived = DOMAIN files]))

Next ==
  \/ Submit
  \/ \E p \in DOMAIN pages : PageFetchOk(p)
  \/ \E p \in DOMAIN pages : PageFetchFail(p)
  \/ \E p \in DOMAIN pages : \E k \in DOMAIN pages[p].tasks : AssetFetchOk(p, k)
  \/ \E p \in DOMAIN pages : \E k \in DOMAIN pages[p].tasks : AssetFetchFail(p, k)
  \/ \E p \in DOMAIN pages : \E k \in DOMAIN pages[p].tasks : BackoffElapsed(p, k)
  \/ ArchiveDone

\* the jobs on the small sites, and on every site
Init == InitOn({"mesh", "big", "nest"})
InitAll == InitOn(Sites)
Spec == Init /\ [][Next]_vars
SpecAll == InitAll /\ [][Next]_vars
\* the jobs on the site of path shapes
InitPaths == InitOn({"paths"})
SpecPaths == InitPaths /\ [][Next]_vars


\* a turn is due: the request has not been handled, the archive is being
\* finalized, or a page request, an asset request or a backoff timer is
\* outstanding
Due ==
  \/ jobPc \in {"idle", "archiving"}
  \/ \E p \in DOMAIN pages :
        \/ pages[p].pc = "fetching"
        \/ /\ pages[p].pc = "assets"
           /\ \E k \in DOMAIN pages[p].tasks : pages[p].tasks[k].pc \in {"fetching", "backoff"}

\* the turn that is due is taken
Tick == Due /\ steps' = steps + 1

\* every request is answered or times out (timeout: 30000 for pages, 10000
\* for assets), every setTimeout fires and archive.finalize() resolves: a
\* turn that is due is eventually taken
FairSpec == Spec /\ WF_steps(Tick)


\* ------------------------------------------------------------------ claims
InFlight(t) == t.pc \in {"fetching", "backoff"}
Tasks == UNION {{<<p, k>> : k \in DOMAIN pages[p].tasks} : p \in DOMAIN pages}
TaskOf(pk) == pages[pk[1]].tasks[pk[2]]
ItemOf(pk) == pages[pk[1]].items[pk[2]]
\* the task ran downloadAsset
Downloader(pk) == TaskOf(pk).pc \in {"fetching", "backoff", "ok"} \/ (TaskOf(pk).pc = "failed" /\ Parsable(ItemOf(pk).url))
OrigVal(pk) == Content(pk[1]).els[ItemOf(pk).el].val
PagePath(p) == getLocalFilePath(p).path

\* C1: for every normalized page URL (query and fragment removed) at most one
\* page fetch is ever started, the submitted target URL included.
C1_OnePageFetchPerNormalizedUrl ==
  \A u, v \in DOMAIN log.fetches :
     /\ log.fetches[u] <= 1
     /\ NormalizeLink(u) = NormalizeLink(v) => u = v

\* C2: an asset URL is in visitedAssets from the step that starts its
\* download, and downloadAsset is invoked at most once per asset URL, whatever
\* pages and elements reference it.
C2_AssetClaimedOnce ==
  /\ \A u \in DOMAIN log.assetCalls : log.assetCalls[u] <= 1 /\ u \in visitedAssets
  /\ \A pk \in Tasks : Downloader(pk) =>
        /\ ItemOf(pk).url \in visitedAssets
        /\ Count(log.assetCalls, ItemOf(pk).url) = 1
        /\ \A ql \in Tasks : (Downloader(ql) /\ ItemOf(ql).url = ItemOf(pk).url) => ql = pk

\* two pages of one wave and two elements of one page reference an asset that
\* one of them is downloading
C2_Witness ==
  \E pk \in Tasks : \E ql \in Tasks : \E rm \in Tasks :
     /\ InFlight(TaskOf(pk))
     /\ ql[1] = pk[1] /\ ql[2] # pk[2] /\ ItemOf(ql).url = ItemOf(pk).url /\ TaskOf(ql).pc = "skipped"
     /\ rm[1] # pk[1] /\ ItemOf(rm).url = ItemOf(pk).url /\ TaskOf(rm).pc = "skipped"
     /\ {pk[1], rm[1]} \subseteq Range(Last(log.waves))

C3_State ==
  /\ totalSize > MAX_SIZE_MB => jobPc = "failed" /\ log.archived = {}
  /\ jobPc = "failed" => totalSize > MAX_SIZE_MB
  /\ jobPc \in {"archiving", "completed"} => totalSize <= MAX_SIZE_MB
  /\ jobPc = "crawling" => pending # {} /\ \A p \in pending : pages[p].pc \in {"fetching", "assets"}
  /\ jobPc = "completed" => urlQueue = <<>> /\ pending = {}

\* C3: a job whose size total exceeds MAX_SIZE_MB is failed at once and, once
\* failed, stays failed (it never archives); a job is failed only for that;
\* while the total is at most the ceiling the job waits only for pages in
\* flight, and it archives and completes with the frontier drained.
C3_SizeCeiling == []C3_State /\ [][jobPc = "failed" => jobPc' = "failed"]_vars

\* a job failed over the ceiling
C3_Witness == jobPc = "failed" /\ totalSize > MAX_SIZE_MB /\ urlQueue = <<>> /\ Len(log.waves) = 4

\* a job completed with its total exactly at the ceiling
C3_WitnessAtCeiling == jobPc = "completed" /\ totalSize = MAX_SIZE_MB

\* C4: once the job is Completed or Failed and its cleanup has run, the
\* working area does not exist.
C4_WorkingAreaStaysGone == jobPc \in {"completed", "failed"} => ~tempDir

\* C5: a page is given up for a failed fetch only after RETRIES attempts (a
\* page whose first two attempts fail is fetched a third time).
C5_PageFetchRetried ==
  \A p \in DOMAIN pages :
     (pages[p].pc = "failed" /\ pages[p].why = "fetch") => Count(log.fetches, p) = RETRIES

\* C6: downloadAsset makes at most RETRIES requests, none after a success,
\* sleeps BACKOFF_BASE_MS * 2^i after failed attempt i, gives up only on the
\* last attempt, and an asset fetched at any attempt is in the working area
\* at its mapped path with its element rewritten.
C6_AssetRetries ==
  \A pk \in Tasks :
     LET t == TaskOf(pk)
         u == ItemOf(pk).url
         path == AssetPath(u, baseHost)
     IN  /\ t.i <= RETRIES - 1
         /\ Count(log.assetGets, u) <= RETRIES
         /\ Downloader(pk) => Count(log.assetGets, u) = t.i + 1
         /\ Len(t.waits) = IF t.pc = "backoff" THEN t.i + 1 ELSE t.i
         /\ \A j \in 1..Len(t.waits) : t.waits[j] = BACKOFF_BASE_MS * Pow2(j - 1)
         /\ (t.pc = "failed" /\ Parsable(u)) => t.i = RETRIES - 1
         /\ t.pc = "ok" =>
              /\ t.size = AssetBody(u).size
              /\ pages[pk[1]].attrs[ItemOf(pk).el] = LocalRef(EncodeURI(Relative(PageDir(pk[1]), path)))
              /\ jobPc \in {"crawling", "archiving"} =>
                   path \in DOMAIN files /\ files[path].kind = "asset" /\ files[path].url = u

\* an asset fetched at its third attempt, after 1000 ms and 2000 ms, stored
\* and referenced by the page as written
C6_Witness ==
  \E pk \in Tasks :
     /\ TaskOf(pk).pc = "ok" /\ TaskOf(pk).i = 2 /\ TaskOf(pk).waits = <<1000, 2000>>
     /\ ItemOf(pk).url = Url(SiteOrg, CssP, "", "")
     /\ CssP \in DOMAIN files
     /\ pages[pk[1]].pc = "done"
     /\ PagePath(pk[1]) \in DOMAIN files
     /\ files[PagePath(pk[1])].attrs[ItemOf(pk).el] = LocalRef(CssP)

\* C7: an asset that failed every attempt leaves its element as it was and
\* adds nothing to the page's size; its page goes on (it awaits assets in
\* flight or is done with every asset settled, its size the body plus the
\* fetched assets, its file written with the element unchanged), and the job
\* fails only over the ceiling.
C7_AssetFailureIsLocal ==
  /\ jobPc = "failed" => totalSize > MAX_SIZE_MB
  /\ \A pk \in Tasks : (TaskOf(pk).pc = "failed" /\ Parsable(ItemOf(pk).url)) =>
       LET p == pk[1]
           pg == pages[p]
       IN  /\ TaskOf(pk).size = 0
           /\ pg.attrs[ItemOf(pk).el] = OrigVal(pk)
           /\ pg.pc \in {"assets", "done"}
           /\ pg.pc = "assets" => \E k \in DOMAIN pg.tasks : InFlight(pg.tasks[k])
           /\ pg.pc = "done" =>
                /\ \A k \in DOMAIN pg.tasks : Settled(pg.tasks[k])
                /\ pg.pageSize = Content(p).size + SumSizes(pg.tasks, 1, Len(pg.tasks))
                /\ jobPc \in {"crawling", "archiving"} =>
                     /\ PagePath(p) \in DOMAIN files
                     /\ files[PagePath(p)].attrs[ItemOf(pk).el] = OrigVal(pk)

\* a page written with one asset failed after three attempts, another fetched
\* and its links rewritten
C7_Witness ==
  \E pk \in Tasks : \E ql \in Tasks :
     /\ TaskOf(pk).pc = "failed" /\ TaskOf(pk).i = RETRIES - 1
     /\ ql[1] = pk[1] /\ TaskOf(ql).pc = "ok"
     /\ pages[pk[1]].pc = "done" /\ jobPc = "archiving"
     /\ PagePath(pk[1]) \in DOMAIN files
     /\ files[PagePath(pk[1])].attrs[ItemOf(pk).el] = OrigVal(pk)
     /\ \E j \in DOMAIN pages[pk[1]].attrs :
          Content(pk[1]).els[j].tag = "a" /\ pages[pk[1]].attrs[j].k = "local"

\* C8: the step in which a page fails leaves the size total as it was, does
\* not fail the job, leaves every other page's task as it was, and leaves the
\* job awaiting the pages in flight, claiming the next wave or archiving.
C8_PageFailureIsLocal ==
  [][\A p \in DOMAIN pages :
       (pages[p].pc # "failed" /\ pages'[p].pc = "failed") =>
          /\ totalSize' = totalSize
          /\ jobPc' = "failed" => jobPc = "failed"
          /\ \A q \in DOMAIN pages \ {p} : pages'[q] = pages[q]
          /\ jobPc' = "crawling" =>
               pending' # {} /\ \A q \in pending' : pages'[q].pc \in {"fetching", "assets"}
          /\ jobPc = "crawling" => jobPc' \in {"crawling", "archiving"}]_vars

\* a wave with a failed page and a processed page, and a wave after it
C8_Witness ==
  \E w \in 1..(Len(log.waves) - 1) : \E p, q \in Range(log.waves[w]) :
     /\ pages[p].pc = "failed" /\ pages[p].why = "fetch"
     /\ pages[q].pc = "done"
     /\ \E r \in Range(Last(log.waves)) : pages[r].pc = "done"

\* the URLs claimed in the waves up to wave w
ClaimedBy(w) == UNION {Range(log.waves[v]) : v \in 1..w}

\* C9: if A was appended to the frontier before B and B has been claimed,
\* then A was claimed in the same wave or an earlier one.
C9_Fifo ==
  \A j \in 1..Len(log.enq) : \A w \in 1..Len(log.waves) :
     log.enq[j] \in Range(log.waves[w]) =>
        {log.enq[i] : i \in 1..(j - 1)} \subseteq ClaimedBy(w)

\* the frontier held more than one wave: a wave of CHUNK_SIZE pages and a
\* later wave with the pages appended after them
C9_Witness ==
  \E w \in 1..Len(log.waves) :
     /\ Len(log.waves[w]) = CHUNK_SIZE
     /\ w < Len(log.waves)
     /\ urlQueue = <<>>

NoDup(q) == \A i, j \in 1..Len(q) : q[i] = q[j] => i = j

\* C10: the frontier holds no URL twice and no visited URL, and no URL is
\* ever appended to it twice.
C10_EnqueuedOnce ==
  /\ NoDup(urlQueue)
  /\ Range(urlQueue) \cap visitedUrls = {}
  /\ NoDup(log.enq)
  /\ Range(urlQueue) \subseteq Range(log.enq)

\* a page was processed whose links lead to a page already claimed and to a
\* page still in the frontier
C10_Witness ==
  \E p \in DOMAIN pages : \E i, j \in DOMAIN pages[p].attrs :
     /\ pages[p].pc = "done"
     /\ Content(p).els[i].tag = "a" /\ Content(p).els[j].tag = "a"
     /\ Resolve(Content(p).els[i].val, p).ok /\ Resolve(Content(p).els[j].val, p).ok
     /\ NormalizeLink(Resolve(Content(p).els[i].val, p).url) \in visitedUrls \ {p}
     /\ NormalizeLink(Resolve(Content(p).els[j].val, p).url) \in Range(urlQueue)

\* C11: for a target URL that is malformed or whose host name does not end
\* in an allowed suffix the request is at most rejected: no working area, no
\* file, no frontier entry, no visited URL, no task and no request ever exist.
C11_RejectedBeforeAnyState ==
  (~Parsable(targetUrl) \/ Last(Host(targetUrl)) \notin AllowedSuffixes) =>
     /\ jobPc \in {"idle", "rejected"}
     /\ ~tempDir /\ files = Empty
     /\ urlQueue = <<>> /\ visitedUrls = {} /\ visitedAssets = {}
     /\ pages = Empty /\ pending = {} /\ totalSize = 0
     /\ log.fetches = Empty /\ log.assetCalls = Empty /\ log.assetGets = Empty
     /\ log.enq = <<>> /\ log.waves = <<>> /\ log.written = {}

\* a request rejected for a host that holds an allowed suffix without ending in it
C11_Witness == jobPc = "rejected" /\ targetUrl.org = LookalikeOrg

\* the page files written, and the normalized URL a page's element j links to
PagesWritten == {w \in log.written : w.kind = "page"}
IsLink(p, j) == Content(p).els[j].tag = "a"
LinkTarget(p, j) == NormalizeLink(Resolve(Content(p).els[j].val, p).url)

\* C12: when page P was written with its link j rewritten and the link's
\* target T was written as a page, in whichever order, the href is the
\* URL-encoded relative path from the directory of P's file to T's file, and
\* T's file is where getLocalFilePath puts the normalized URL.
C12_LinkMeetsTargetFile ==
  \A wp \in PagesWritten : \A wt \in PagesWritten :
     \A j \in DOMAIN pages[wp.url].attrs :
        (/\ IsLink(wp.url, j)
         /\ pages[wp.url].attrs[j].k = "local"
         /\ NormalizeLink(wt.url) = LinkTarget(wp.url, j)) =>
           /\ pages[wp.url].attrs[j] = LocalRef(EncodeURI(Relative(Dirname(wp.path), wt.path)))
           /\ wt.path = getLocalFilePath(LinkTarget(wp.url, j)).path

\* a page in a directory and a page above it, each written with its link to
\* the other: ../a.html one way, d%20x/p.html the other
C12_Witness ==
  LET d == Url(SiteOrg, DeepP, "", "")
      a == Url(SiteOrg, AP, "", "")
  IN  /\ site = "nest"
      /\ {d, a} \subseteq {w.url : w \in PagesWritten}
      /\ pages[d].attrs[1] = LocalRef(<< <<"..">>, <<"a", ".html">> >>)
      /\ pages[a].attrs[1] = LocalRef(<< <<"d", "%20", "x">>, <<"p", ".html">> >>)
      /\ [path |-> << <<"d", " ", "x">>, <<"p", ".html">> >>, kind |-> "page", url |-> d] \in log.written


\* C13: an element whose asset URL was already in visitedAssets starts no
\* download of it, and in the page as written its reference is the relative
\* local path of that asset.
C13_VisitedAssetRewritten ==
  \A pk \in Tasks : (TaskOf(pk).pc = "skipped" /\ Parsable(ItemOf(pk).url)) =>
     /\ Count(log.assetCalls, ItemOf(pk).url) <= 1
     /\ pages[pk[1]].pc = "done" =>
          pages[pk[1]].attrs[ItemOf(pk).el] =
             RewrittenRef(PageDir(pk[1]), AssetPath(ItemOf(pk).url, baseHost))


\* element j of page p is a hyperlink the link rewriter does not skip: its
\* href is not empty, mailto:, tel: or a fragment, and it resolves to a URL
Navigational(p, j) ==
  /\ IsLink(p, j)
  /\ Content(p).els[j].val.k \notin {"empty", "mailto", "tel", "hash"}
  /\ Resolve(Content(p).els[j].val, p).ok

\* the href that points from page p to the page file of the normalized URL n
HrefTo(p, n) == LocalRef(EncodeURI(Relative(PageDir(p), getLocalFilePath(n).path)))

C15_FrontierSameOrigin ==
  /\ \A i \in 1..Len(log.enq) : Origin(log.enq[i]) = Origin(targetUrl)
  /\ \A u \in DOMAIN log.fetches : Origin(u) = Origin(targetUrl)


\* C16: no two writes of a job go to the same local path: the files written
\* for distinct claimed page and asset URLs are distinct.
C16_OneWritePerPath ==
  \A w1 \in log.written : \A w2 \in log.written : w1.path = w2.path => w1 = w2


\* C17: the ceiling is tested only once a wave is over: in the step that
\* fails the job for its size every page task of the job has finished (its
\* file written or its failure logged), and none is left at a request.
C17_FailsOnlyAtWaveBoundary ==
  [][(jobPc # "failed" /\ jobPc' = "failed") =>
       \A p \in DOMAIN pages' : pages'[p].pc \in {"done", "failed"}]_vars


\* the request is over and nothing of it is running
Quiet ==
  /\ jobPc \in {"rejected", "completed", "failed"}
  /\ \A p \in DOMAIN pages : pages[p].pc \in {"done", "failed"}

\* C18: when every request and every timer eventually returns, each job
\* comes to rest in a terminal state: completed with the frontier empty and
\* no page awaited, or failed over the size ceiling; pages that link to each
\* other in cycles do not keep the crawl loop running.
C18_JobTerminates ==
  /\ <>[]Quiet
  /\ [](jobPc = "completed" => urlQueue = <<>> /\ pending = {} /\ totalSize <= MAX_SIZE_MB)
  /\ [](jobPc = "failed" => totalSize > MAX_SIZE_MB)

\* a job completed on the site whose pages /, /a, /b and /c link to each
\* other in cycles
C18_Witness ==
  /\ site = "mesh" /\ jobPc = "completed"
  /\ {Url(SiteOrg, AP, "", ""), Url(SiteOrg, BP, "", ""), Url(SiteOrg, CP, "", "")} \subseteq DOMAIN pages
  /\ \A p \in DOMAIN pages : pages[p].pc = "done" \/ p.path = ZP


\* the pages being processed: downloadPage was called and has not returned
Running == {p \in DOMAIN pages : pages[p].pc \in {"fetching", "assets"}}

C19_State ==
  /\ Cardinality(Running) <= CHUNK_SIZE
  /\ \A w \in 1..Len(log.waves) : Len(log.waves[w]) <= CHUNK_SIZE
  /\ log.waves # <<>> => Running \subseteq Range(Last(log.waves))

\* a step that claims a wave: every page of the waves before it has finished,
\* and the wave is the whole frontier or CHUNK_SIZE URLs of it
C19_Claim ==
  Len(log.waves') > Len(log.waves) =>
     /\ \A p \in ClaimedBy(Len(log.waves)) : pages'[p].pc \in {"done", "failed"}
     /\ Running' \subseteq Range(Last(log.waves'))
     /\ Len(Last(log.waves')) = CHUNK_SIZE \/ urlQueue' = <<>>

\* C19: at most CHUNK_SIZE pages are being processed at any moment, all of
\* them of the last wave claimed; a wave takes min(CHUNK_SIZE, frontier
\* length) URLs, and it is claimed only when every page of the waves before
\* it has finished, done or failed.
C19_WaveBound == []C19_State /\ [][C19_Claim]_vars

\* CHUNK_SIZE pages are being processed while the frontier holds another URL
C19_Witness == Cardinality(Running) = CHUNK_SIZE /\ urlQueue # <<>>


\* the page file f holds the page with its assets settled, each fetched
\* asset's element rewritten and each link under the origin rewritten
WrittenWhole(f) ==
  LET p == f.url
      pg == pages[p]
  IN  /\ pg.pc = "done"
      /\ pg.at >= Len(pg.items)
      /\ \A k \in DOMAIN pg.tasks :
            /\ Settled(pg.tasks[k])
            /\ pg.tasks[k].pc = "ok" =>
                 f.attrs[pg.items[k].el] =
                    RewrittenRef(PageDir(p), AssetPath(pg.items[k].url, baseHost))
      /\ \A j \in DOMAIN f.attrs :
            (/\ Navigational(p, j)
             /\ IsPrefix(Origin(targetUrl), LinkTarget(p, j).org)
             /\ getLocalFilePath(LinkTarget(p, j)).ok) =>
               f.attrs[j] = HrefTo(p, LinkTarget(p, j))

\* C20: while the archive is built the frontier is empty, every claimed URL
\* has a page task that is over (done with its file in the working area, or
\* failed with its cause), and no page or asset request is outstanding; and
\* a page file in the working area was written after all of the page's asset
\* chunks had settled and its links had been rewritten.
C20_ArchiveFromCompletedCrawl ==
  /\ jobPc = "archiving" =>
       /\ urlQueue = <<>> /\ pending = {} /\ tempDir
       /\ DOMAIN pages = visitedUrls
       /\ \A p \in DOMAIN pages :
             /\ pages[p].pc \in {"done", "failed"}
             /\ pages[p].pc = "done" => PagePath(p) \in DOMAIN files
             /\ pages[p].pc = "failed" => pages[p].why \in {"fetch", "path", "write"}
             /\ \A k \in DOMAIN pages[p].tasks : ~InFlight(pages[p].tasks[k])
  /\ jobPc = "completed" => ~Due
  /\ \A path \in DOMAIN files : files[path].kind = "page" => WrittenWhole(files[path])

\* the archive is being built from a crawl in which a page failed, and a
\* page was written after one of its assets was fetched and another failed
C20_Witness ==
  /\ jobPc = "archiving"
  /\ \E p \in DOMAIN pages : pages[p].pc = "failed"
  /\ \E path \in DOMAIN files :
        /\ files[path].kind = "page"
        /\ \E k, l \in DOMAIN pages[files[path].url].tasks :
              /\ pages[files[path].url].tasks[k].pc = "ok"
              /\ pages[files[path].url].tasks[l].pc = "failed"


\* the percent-decoded path of a URL path, a file name with .html appended,
\* and whether the URL path's last segment has an extension
DecodedPath(pn) == DropEmpty([i \in 1..Len(pn) |-> DecodeSeg(pn[i])])
PlusHtml(path) == Front(path) \o <<Last(path) \o <<".html">>>>
HasExtension(pn) == ExtName(Last(pn)) # ""
Undecodable(pn) == \E i \in 1..Len(pn) : \E j \in 1..Len(pn[i]) : ~DecodeOk(pn[i][j])

\* C21 as stated: a page whose URL path ends in '/' is written to index.html
\* under that directory, one whose last segment has no extension to its path
\* plus .html, and one with any extension to its path unchanged.
C21_ThreeCases ==
  \A w \in PagesWritten :
     LET pn == Pathname(w.url)
     IN  /\ Last(pn) = <<>> => w.path = DropEmpty(pn) \o <<IndexHtml>>
         /\ (Last(pn) # <<>> /\ ~HasExtension(pn)) => w.path = PlusHtml(DecodedPath(pn))
         /\ (Last(pn) # <<>> /\ HasExtension(pn)) => w.path = DecodedPath(pn)

\* C21 amended: a page whose URL path ends in '/' is written to index.html
\* under that directory (the path as in the URL); one whose last segment has
\* no extension, or an extension other than .html or .htm in any case of the
\* letters, to its percent-decoded path plus .html; one with the extension
\* .html or .htm to its percent-decoded path unchanged; a page whose path
\* cannot be percent-decoded is not mapped and is never written.
C21_HtmlUnlessHtmlExtension ==
  /\ \A w \in PagesWritten :
        LET pn == Pathname(w.url)
            isHtml == HasExtension(pn) /\ LowerTok(ExtName(Last(pn))) \in {".html", ".htm"}
        IN  /\ ~Undecodable(pn)
            /\ Last(pn) = <<>> => w.path = DropEmpty(pn) \o <<IndexHtml>>
            /\ (Last(pn) # <<>> /\ ~isHtml) => w.path = PlusHtml(DecodedPath(pn))
            /\ (Last(pn) # <<>> /\ isHtml) => w.path = DecodedPath(pn)
  /\ \A p \in DOMAIN pages :
        /\ pages[p].pc = "done" => \E w \in PagesWritten : w.url = p
        /\ Undecodable(Pathname(p)) => pages[p].pc \in {"fetching", "failed"}
        /\ (pages[p].pc = "failed" /\ pages[p].why = "path") => Undecodable(Pathname(p))

\* pages of every shape of path were written: two directories, no extension,
\* .html, .HTML and .css, and the page with the undecodable path failed
C21_Witness ==
  /\ site = "paths"
  /\ { << <<"dir">>, IndexHtml >>,
       << <<"d", "%20", "y">>, IndexHtml >>,
       << <<"p", ".html">> >>,
       << <<"q", ".html">> >>,
       << <<"r", ".HTML">> >>,
       << <<"docs">>, <<"x", ".css", ".html">> >>,
       << <<"d", " ", "x">>, <<"p", ".html">> >> } \subseteq {w.path : w \in PagesWritten}
  /\ pages[Url(SiteOrg, ZP, "", "")].why = "path"

====
